---------------------------- MODULE Spec2Model ----------------------------
(***************************************************************************)
(* Model of the transmitted-light controller bridge (src/src/index.ts,     *)
(* with commands.ts and store.ts in src/unnamed/part_000).                 *)
(*                                                                         *)
(* A TCP client sends request lines; handleRequest parses each line and    *)
(* executeCommand turns it into exchanges with the microscope over the     *)
(* serial port.  Node runs every handler to its next suspension point      *)
(* without interleaving, so one action of the model is one macrotask:      *)
(* the arrival of a request line, the completion callback of a port        *)
(* write, one poll timer of waitForResponse, or one line delivered by the  *)
(* serial parser.  `await`s of already-settled promises are microtasks     *)
(* and stay inside the action.                                             *)
(***************************************************************************)
EXTENDS Integers, Sequences, FiniteSets, TLC

VARIABLES port, responseQueue, state, reqs, last, inbox, received, alive

vars == <<port, responseQueue, state, reqs, last, inbox, received, alive>>

(***************************************************************************)
(* Bounds of the model.                                                    *)
(***************************************************************************)
\* request lines received, when each is sent after the previous command ended
MaxRequests == 3
\* request lines received, when clients send without waiting
MaxOverlapRequests == 2
\* handleRequest invocations that may be suspended at the same time
MaxInFlight == 2
\* polls of waitForResponse before the deadline passes (the code's
\* deadline of 1000 ms is 100 polls of 10 ms; the model counts fewer)
MaxPolls == 2
\* characters after the prefix of a request line given to parseCommand alone
MaxArgsLen == 3

(***************************************************************************)
(* JavaScript string primitives used by parseCommand.                      *)
(***************************************************************************)
Char(s, i) == SubSeq(s, i, i)

IsWhiteSpace(c) == c \in {" ", "\n", "\r", "\t"}

IsDigit(c) == c \in {"0", "1", "2", "3", "4", "5", "6", "7", "8", "9"}

DigitValue(c) ==
  CASE c = "0" -> 0 [] c = "1" -> 1 [] c = "2" -> 2 [] c = "3" -> 3
    [] c = "4" -> 4 [] c = "5" -> 5 [] c = "6" -> 6 [] c = "7" -> 7
    [] c = "8" -> 8 [] c = "9" -> 9

\* String.prototype.endsWith
endsWith(s, suffix) ==
  /\ Len(s) >= Len(suffix)
  /\ SubSeq(s, Len(s) - Len(suffix) + 1, Len(s)) = suffix

\* trim that leaves the line as it is
trim_Nothing(s) == s

\* String.prototype.trim: white space removed at both ends
trim(s) ==
  LET solid == {i \in 1..Len(s) : ~IsWhiteSpace(Char(s, i))}
      lo == CHOOSE i \in solid : \A j \in solid : i <= j
      hi == CHOOSE i \in solid : \A j \in solid : j <= i
  IN  IF solid = {} THEN "" ELSE SubSeq(s, lo, hi)

\* String.prototype.split with a one-character separator: every separator
\* ends a token, so adjacent separators give empty tokens
RECURSIVE SplitFrom(_, _, _, _)
SplitFrom(s, sep, start, i) ==
  IF i > Len(s) THEN <<SubSeq(s, start, Len(s))>>
  ELSE IF Char(s, i) = sep
       THEN <<SubSeq(s, start, i - 1)>> \o SplitFrom(s, sep, i + 1, i + 1)
       ELSE SplitFrom(s, sep, start, i + 1)

split(s, sep) == SplitFrom(s, sep, 1, 1)

\* Number.parseInt(s, 10): leading white space is skipped, an optional sign
\* is read, then the longest run of digits; NaN when that run is empty.
\* Whatever follows the digits is ignored.
NaN == [isNaN |-> TRUE, value |-> 0]

RECURSIVE DigitsFrom(_, _, _, _)
DigitsFrom(s, i, acc, seen) ==
  IF i <= Len(s) /\ IsDigit(Char(s, i))
  THEN DigitsFrom(s, i + 1, 10 * acc + DigitValue(Char(s, i)), TRUE)
  ELSE [isNaN |-> ~seen, value |-> acc]

RECURSIVE SkipWhiteSpace(_, _)
SkipWhiteSpace(s, i) ==
  IF i <= Len(s) /\ IsWhiteSpace(Char(s, i)) THEN SkipWhiteSpace(s, i + 1) ELSE i

parseInt(s) ==
  LET i    == SkipWhiteSpace(s, 1)
      sign == IF i <= Len(s) /\ Char(s, i) = "-" THEN -1 ELSE 1
      j    == IF i <= Len(s) /\ Char(s, i) \in {"-", "+"} THEN i + 1 ELSE i
      d    == DigitsFrom(s, j, 0, FALSE)
  IN  IF d.isNaN THEN NaN ELSE [isNaN |-> FALSE, value |-> sign * d.value]

(***************************************************************************)
(* commands.ts: the typed commands.  A parse failure, which the code       *)
(* returns as the string "ERROR" in place of a command, is the record      *)
(* PARSE_ERROR.                                                            *)
(***************************************************************************)
PARSE_ERROR == [type |-> "ERROR"]


\* outOfRange without the upper limit
outOfRange_NoUpperLimit(intensity) == intensity < 0

\* the range test of the intensity argument
outOfRange(intensity) == intensity < 0 \/ intensity > 255

parseCommand(textCommand) ==
  IF ~endsWith(textCommand, "\n") THEN PARSE_ERROR
  ELSE
    LET tokens == split(trim(textCommand), " ")
        prefix == Head(tokens)
        args   == Tail(tokens)
    IN  CASE prefix = "SHUTDOWN"   -> [type |-> "SHUTDOWN"]
          [] prefix = "INITIALIZE" -> [type |-> "INITIALIZE"]
          [] prefix = "TL_INTENSITY" ->
               IF Len(args) # 1 THEN PARSE_ERROR
               ELSE LET intensity == parseInt(args[1])
                    IN  IF intensity.isNaN THEN PARSE_ERROR
                        ELSE IF outOfRange(intensity.value)
                             THEN PARSE_ERROR
                             ELSE [type |-> "TL_INTENSITY", level |-> intensity.value]
          [] prefix = "SHUTTER_OPEN" ->
               IF Len(args) # 1 THEN PARSE_ERROR
               ELSE IF args[1] = "0" THEN [type |-> "SHUTTER_OPEN", state |-> FALSE]
               ELSE IF args[1] = "1" THEN [type |-> "SHUTTER_OPEN", state |-> TRUE]
               ELSE PARSE_ERROR
          [] OTHER -> PARSE_ERROR

(***************************************************************************)
(* store.ts: the session state.                                            *)
(***************************************************************************)
InitialState == [shutterOpen |-> FALSE, intensity |-> 0]

\* setShutter that zeroes the stored intensity when the shutter closes
setShutter_ZeroesIntensity(s, command) ==
  [s EXCEPT !.shutterOpen = command.state,
            !.intensity = IF command.state THEN @ ELSE 0]

setShutter(s, command) == [s EXCEPT !.shutterOpen = command.state]

\* setIntensity that adds the level to the stored one
setIntensity_Adds(s, command) == [s EXCEPT !.intensity = @ + command.level]

setIntensity(s, command) == [s EXCEPT !.intensity = command.level]


(***************************************************************************)
(* index.ts: the device protocol.                                          *)
(*                                                                         *)
(* reqs holds the handleRequest invocations that are suspended, in order   *)
(* of arrival; last is the invocation that ended most recently.  An        *)
(* invocation is a record:                                                 *)
(*   id              the number of its request line, counting from 1       *)
(*   data, command   the request line and what parseCommand made of it     *)
(*   pc              "writing"  port.write called, its callback pending    *)
(*                   "waiting"  waitForResponse armed its poll timer       *)
(*                   "replied"  the reply line was written to the client   *)
(*                   "aborted"  an Error was thrown out of handleRequest   *)
(*                   "hung"     an awaited promise can never settle        *)
(*   budget          maxWait_ms of the pending waitForResponse call        *)
(*   result          what the primary operation returned                   *)
(*   syncResult      what executeCommand's syncMicroscopeToState returned  *)
(*   reply           the Response written to the client                    *)
(*   log             its exchanges, one per writeToPort call that got      *)
(*                   past the null check:                                  *)
(*     at, message     the call site and the line handed to port.write     *)
(*     st              the session state when the call was made            *)
(*     status          "writing", "failed" (write error), "waiting",       *)
(*                     "done" (a response was returned), "timeout"         *)
(*     response        the line waitForResponse returned                   *)
(*     from, fromAt    the invocation and call site whose line the device  *)
(*                     was answering with that response                    *)
(*     late            the response was enqueued after the exchange it     *)
(*                     answers had timed out                               *)
(* inbox holds the lines the device has received and not answered yet.     *)
(***************************************************************************)
NONE == "NONE"

\* waitForResponse's default interval_ms
interval_ms == 10

\* the deadline writeToPort passes to waitForResponse, in the model's scale
ExchangeTimeout_ms == MaxPolls * interval_ms


\* syncMicroscopeToState writing the intensity whatever the shutter
syncMicroscopeToState_IgnoresShutter(s) ==
  "77020 " \o ToString(s.intensity) \o " 0"

\* syncMicroscopeToState driving the shutter with 77032 lines
syncMicroscopeToState_TogglesShutter(s) ==
  IF s.shutterOpen THEN "77032 0 1" ELSE "77032 0 0"

\* the line syncMicroscopeToState writes for a state snapshot
syncMicroscopeToState(s) ==
  IF s.shutterOpen
  THEN "77020 " \o ToString(s.intensity) \o " 0"
  ELSE "77020 0 0"

\* What a handler does next: call writeToPort(message) at a call site, or
\* return the reply (port is the value of _port it leaves).
CallPort(r, at, message, p) ==
  [kind |-> "call", r |-> r, at |-> at, message |-> message, port |-> p]

Return(r, reply, p) ==
  [kind |-> "return", r |-> [r EXCEPT !.reply = reply, !.pc = "replied"], port |-> p]


\* executeCommandSync with the sync skipped once the primary operation failed
executeCommandSync_SkippedOnError(r, result, s, p) ==
  IF result = "ERROR"
  THEN Return([r EXCEPT !.result = result, !.syncResult = "OK"], "ERROR", p)
  ELSE CallPort([r EXCEPT !.result = result], "sync", syncMicroscopeToState(s), p)

\* executeCommand after the primary operation returned `result`: the
\* syncMicroscopeToState call of line 164
executeCommandSync(r, result, s, p) ==
  CallPort([r EXCEPT !.result = result], "sync", syncMicroscopeToState(s), p)


\* executeCommandResult returning the result of the sync alone
executeCommandResult_SyncOnly(result, syncResult) == syncResult

\* the Response executeCommand returns after its sync
executeCommandResult(result, syncResult) ==
  IF syncResult = "ERROR" THEN syncResult ELSE result


\* initializeResume without the check of the response to "77005 0"
initializeResume_SecondEchoUnchecked(r, at, response, s, p) ==
  CASE at = "init1" ->
         IF response # "77025" THEN executeCommandSync(r, "ERROR", s, p)
         ELSE CallPort(r, "init2", "77005 0", p)
    [] at = "init2" -> CallPort(r, "init3", "77020 0 0", p)
    [] at = "init3" ->
         IF response # "77020" THEN executeCommandSync(r, "ERROR", s, p)
         ELSE CallPort(r, "init4", "77032 0 1", p)
    [] at = "init4" ->
         IF response # "77032" THEN executeCommandSync(r, "ERROR", s, p)
         ELSE CallPort(r, "initsync", syncMicroscopeToState(s), p)
    [] at = "initsync" ->
         executeCommandSync(r, IF response # "77020" THEN "ERROR" ELSE "OK", s, p)

\* initialize() resumed with the response of the exchange it awaited
initializeResume(r, at, response, s, p) ==
  CASE at = "init1" ->
         IF response # "77025" THEN executeCommandSync(r, "ERROR", s, p)
         ELSE CallPort(r, "init2", "77005 0", p)
    [] at = "init2" ->
         IF response # "77005" THEN executeCommandSync(r, "ERROR", s, p)
         ELSE CallPort(r, "init3", "77020 0 0", p)
    [] at = "init3" ->
         IF response # "77020" THEN executeCommandSync(r, "ERROR", s, p)
         ELSE CallPort(r, "init4", "77032 0 1", p)
    [] at = "init4" ->
         IF response # "77032" THEN executeCommandSync(r, "ERROR", s, p)
         ELSE CallPort(r, "initsync", syncMicroscopeToState(s), p)
    [] at = "initsync" ->
         executeCommandSync(r, IF response # "77020" THEN "ERROR" ELSE "OK", s, p)


\* shutdownResume releasing the port on every path
shutdownResume_AlwaysReleases(r, response, p) ==
  IF response # "77005" THEN Return([r EXCEPT !.result = "ERROR"], "ERROR", FALSE)
  ELSE Return([r EXCEPT !.result = "OK"], "OK", FALSE)

\* shutdown() resumed with the response to "77005 1"
shutdownResume(r, response, p) ==
  IF response # "77005" THEN Return([r EXCEPT !.result = "ERROR"], "ERROR", p)
  ELSE Return([r EXCEPT !.result = "OK"], "OK", FALSE)

\* executeCommand resumed with the response of its sync exchange
syncResume(r, response, p) ==
  LET syncResult == IF response # "77020" THEN "ERROR" ELSE "OK"
  IN  Return([r EXCEPT !.syncResult = syncResult],
             executeCommandResult(r.result, syncResult), p)

\* handleRequest resumed with the response of the exchange it awaited
Resume(r, at, response, s, p) ==
  CASE at = "sync"     -> syncResume(r, response, p)
    [] at = "shutdown" -> shutdownResume(r, response, p)
    [] OTHER           -> initializeResume(r, at, response, s, p)

\* shutdown() up to its first suspension
shutdown(r, p) ==
  IF p THEN CallPort(r, "shutdown", "77005 1", p)
  ELSE Return([r EXCEPT !.result = "OK"], "OK", FALSE)

\* initialize() starting at the lamp line, without "77025 0"
initialize_SkipsRemoteMode(r) == CallPort(r, "init2", "77005 0", TRUE)

\* initialize() up to its first suspension: the port is opened if it is not
initialize(r) == CallPort(r, "init1", "77025 0", TRUE)

\* the session state after the primary operation of a command
primaryState(command, s) ==
  CASE command.type = "TL_INTENSITY" -> setIntensity(s, command)
    [] command.type = "SHUTTER_OPEN" -> setShutter(s, command)
    [] OTHER -> s

\* executeCommand up to its first suspension, from session state s
executeCommand(r, s, p) ==
  CASE r.command.type = "SHUTDOWN"     -> shutdown(r, p)
    [] r.command.type = "INITIALIZE"   -> initialize(r)
    [] r.command.type = "TL_INTENSITY" ->
         executeCommandSync(r, "OK", primaryState(r.command, s), p)
    [] r.command.type = "SHUTTER_OPEN" ->
         executeCommandSync(r, "OK", primaryState(r.command, s), p)

\* handleRequest up to its first suspension
handleRequest(r, s, p) ==
  IF r.command = PARSE_ERROR THEN Return(r, "ERROR", p)
  ELSE executeCommand(r, s, p)

\* waitForResponse(maxWait_ms) with the queue q: a queued line is returned
\* at once, a spent budget throws, otherwise the 10 ms timer is armed
waitForResponse(q, maxWait_ms) ==
  IF Len(q) > 0 THEN "response"
  ELSE IF maxWait_ms <= 0 THEN "timeout"
  ELSE "timer"

NoRequest ==
  [id |-> 0, data |-> "", command |-> PARSE_ERROR, pc |-> "none", budget |-> 0,
   result |-> NONE, syncResult |-> NONE, reply |-> NONE, log |-> <<>>]

\* the exchange an invocation is suspended in
Current(r) == r.log[Len(r.log)]

SetCurrent(r, e) == [r EXCEPT !.log[Len(r.log)] = e]

Without(seq, k) == SubSeq(seq, 1, k - 1) \o SubSeq(seq, k + 1, Len(seq))

\* reqs and last once the invocation at position k of reqs (a new one when
\* k = Len(reqs) + 1) has become r2
Place(k, r2) ==
  IF r2.pc \in {"writing", "waiting"}
  THEN /\ reqs' = IF k > Len(reqs) THEN Append(reqs, r2) ELSE [reqs EXCEPT ![k] = r2]
       /\ last' = last
  ELSE /\ reqs' = IF k > Len(reqs) THEN reqs ELSE Without(reqs, k)
       /\ last' = r2

\* The state after the invocation at position k ran to outcome `out`,
\* leaving session state s.  A call enters writeToPort: with no port it
\* throws, otherwise port.write is called and the invocation suspends on
\* the write callback.  A rejection nobody handles is reported by the
\* runtime, which either goes on or ends the process.
Settle(k, out, s) ==
  LET throws == out.kind = "call" /\ ~out.port
      e  == [at |-> out.at, message |-> out.message, st |-> s, status |-> "writing",
             response |-> NONE, from |-> 0, fromAt |-> NONE, late |-> FALSE]
      r2 == IF out.kind = "return" THEN out.r
            ELSE IF throws THEN [out.r EXCEPT !.pc = "aborted"]
            ELSE [out.r EXCEPT !.pc = "writing", !.budget = 0, !.log = Append(@, e)]
  IN  /\ Place(k, r2)
      /\ port' = out.port
      /\ state' = s
      /\ IF throws THEN alive' \in BOOLEAN ELSE alive' = alive

\* A request line arrives on a client connection (the "data" event).
Receive(data, limit, requests) ==
  /\ alive
  /\ received < requests
  /\ Len(reqs) < limit
  /\ received' = received + 1
  /\ LET r == [NoRequest EXCEPT !.id = received + 1, !.data = data,
                                !.command = parseCommand(data), !.pc = "running"]
         s == IF r.command = PARSE_ERROR THEN state ELSE primaryState(r.command, state)
     IN  Settle(Len(reqs) + 1, handleRequest(r, state, port), s)
  /\ UNCHANGED <<responseQueue, inbox>>

\* TakeResponse popping the newest line of the queue instead of the oldest
TakeResponse_Newest(k) ==
  LET r    == reqs[k]
      n    == Len(responseQueue)
      head == responseQueue[n]
      e    == [Current(r) EXCEPT !.status = "done", !.response = head.text,
                 !.from = head.from, !.fromAt = head.fromAt, !.late = head.late]
  IN  /\ responseQueue' = SubSeq(responseQueue, 1, n - 1)
      /\ Settle(k, Resume(SetCurrent(r, e), e.at, head.text, state, port), state)

\* An exchange gets its response: the head of the queue is shifted and the
\* invocation resumed with it.
TakeResponse(k) ==
  LET r    == reqs[k]
      head == Head(responseQueue)
      e    == [Current(r) EXCEPT !.status = "done", !.response = head.text,
                 !.from = head.from, !.fromAt = head.fromAt, !.late = head.late]
  IN  /\ responseQueue' = Tail(responseQueue)
      /\ Settle(k, Resume(SetCurrent(r, e), e.at, head.text, state, port), state)

\* WriteDone where a failed write of a primary line is followed by the sync
WriteDone_SyncsAfterError(k, error) ==
  /\ alive
  /\ k \in 1..Len(reqs)
  /\ reqs[k].pc = "writing"
  /\ UNCHANGED received
  /\ LET r == reqs[k]
         e == Current(r)
         f == SetCurrent(r, [e EXCEPT !.status = "failed"])
     IN  IF error
         THEN IF e.at \in {"sync", "shutdown"}
              THEN /\ Place(k, [f EXCEPT !.pc = "aborted"])
                   /\ alive' \in BOOLEAN
                   /\ UNCHANGED <<port, responseQueue, state, inbox>>
              ELSE /\ Settle(k, executeCommandSync(f, "ERROR", state, port), state)
                   /\ UNCHANGED <<responseQueue, inbox>>
         ELSE /\ inbox' = Append(inbox, [from |-> r.id, fromAt |-> e.at,
                                         message |-> e.message, late |-> FALSE])
              /\ IF waitForResponse(responseQueue, ExchangeTimeout_ms) = "response"
                 THEN TakeResponse(k)
                 ELSE /\ Place(k, [SetCurrent(r, [e EXCEPT !.status = "waiting"])
                                     EXCEPT !.pc = "waiting",
                                            !.budget = ExchangeTimeout_ms])
                      /\ UNCHANGED <<port, responseQueue, state, alive>>

\* The callback of port.write runs, with or without an error.
WriteDone(k, error) ==
  /\ alive
  /\ k \in 1..Len(reqs)
  /\ reqs[k].pc = "writing"
  /\ UNCHANGED received
  /\ LET r == reqs[k]
         e == Current(r)
     IN  IF error
         THEN /\ Place(k, [SetCurrent(r, [e EXCEPT !.status = "failed"])
                             EXCEPT !.pc = "aborted"])
              /\ alive' \in BOOLEAN
              /\ UNCHANGED <<port, responseQueue, state, inbox>>
         ELSE /\ inbox' = Append(inbox, [from |-> r.id, fromAt |-> e.at,
                                         message |-> e.message, late |-> FALSE])
              /\ IF waitForResponse(responseQueue, ExchangeTimeout_ms) = "response"
                 THEN TakeResponse(k)
                 ELSE /\ Place(k, [SetCurrent(r, [e EXCEPT !.status = "waiting"])
                                     EXCEPT !.pc = "waiting",
                                            !.budget = ExchangeTimeout_ms])
                      /\ UNCHANGED <<port, responseQueue, state, alive>>

\* the inbox once the exchange e of invocation id has timed out
Expire(id, at) ==
  [j \in 1..Len(inbox) |->
     IF inbox[j].from = id /\ inbox[j].fromAt = at
     THEN [inbox[j] EXCEPT !.late = TRUE] ELSE inbox[j]]

\* The poll timer of a pending waitForResponse fires: the recursive call
\* with maxWait_ms - interval_ms.  Its timeout Error rejects a promise that
\* only has a .then(resolve), so the awaiting call never settles.
Poll(k) ==
  /\ alive
  /\ k \in 1..Len(reqs)
  /\ reqs[k].pc = "waiting"
  /\ UNCHANGED received
  /\ LET r == reqs[k]
         e == Current(r)
         w == waitForResponse(responseQueue, r.budget - interval_ms)
     IN  CASE w = "response" -> TakeResponse(k) /\ UNCHANGED inbox
           [] w = "timeout" ->
                /\ Place(k, [SetCurrent(r, [e EXCEPT !.status = "timeout"])
                               EXCEPT !.pc = "hung"])
                /\ inbox' = Expire(r.id, e.at)
                /\ alive' \in BOOLEAN
                /\ UNCHANGED <<port, responseQueue, state>>
           [] w = "timer" ->
                /\ reqs' = [reqs EXCEPT ![k].budget = r.budget - interval_ms]
                /\ UNCHANGED <<port, responseQueue, state, last, inbox, alive>>

\* what the device answers to a line it accepts: the line's code
Echo(message) == SubSeq(message, 1, 5)

\* any other answer of the device
Unexpected == "?"

\* The serial parser delivers a line of the device, which the listener
\* pushes onto the queue: the device answers the lines it received in the
\* order it received them, each with its echo or with something else.
DeviceResponds(text) ==
  /\ alive
  /\ Len(inbox) > 0
  /\ text \in {Echo(Head(inbox).message), Unexpected}
  /\ inbox' = Tail(inbox)
  /\ responseQueue' = Append(responseQueue,
       [text |-> text, from |-> Head(inbox).from, fromAt |-> Head(inbox).fromAt,
        late |-> Head(inbox).late])
  /\ UNCHANGED <<port, state, reqs, last, received, alive>>

\* the request lines clients send
Lines ==
  {"INITIALIZE\n", "SHUTDOWN\n", "TL_INTENSITY 100\n", "SHUTTER_OPEN 1\n",
   "SHUTTER_OPEN 0\n", "TL_INTENSITY 300\n", "SHUTTER_OPEN 2\n",
   "TL_INTENSITY\n", "BLINK\n", "INITIALIZE"}

Responses == {"77025", "77005", "77020", "77032", Unexpected}

Init ==
  /\ port = FALSE
  /\ responseQueue = <<>>
  /\ state = InitialState
  /\ reqs = <<>>
  /\ last = NoRequest
  /\ inbox = <<>>
  /\ received = 0
  /\ alive = TRUE

Device ==
  \/ \E k \in 1..MaxInFlight, error \in BOOLEAN : WriteDone(k, error)
  \/ \E k \in 1..MaxInFlight : Poll(k)
  \/ \E text \in Responses : DeviceResponds(text)

\* A client sends a line once the previous command has ended.
Next ==
  \/ \E data \in Lines : Receive(data, 1, MaxRequests)
  \/ Device

Spec == Init /\ [][Next]_vars

\* Clients on several connections send lines without waiting.
NextOverlap ==
  \/ \E data \in Lines : Receive(data, MaxInFlight, MaxOverlapRequests)
  \/ Device

SpecOverlap == Init /\ [][NextOverlap]_vars

(***************************************************************************)
(* Properties.                                                             *)
(***************************************************************************)
\* the invocations on record: the suspended ones and the one that ended last
Invocations ==
  {reqs[k] : k \in 1..Len(reqs)} \cup (IF last.id = 0 THEN {} ELSE {last})

Executed == {"INITIALIZE", "TL_INTENSITY", "SHUTTER_OPEN"}

\* C1: a SHUTDOWN command never issues a sync exchange (no exchange at the
\* sync call site, no line of code 77020), and every INITIALIZE,
\* TL_INTENSITY and SHUTTER_OPEN command that returns its reply has issued
\* and completed executeCommand's sync exchange, a 77020 line, whether its
\* primary operation returned OK or ERROR.
C1_SyncAfterEveryCommandButShutdown ==
  \A r \in Invocations :
    /\ r.command.type = "SHUTDOWN" =>
         \A j \in 1..Len(r.log) :
           r.log[j].at # "sync" /\ SubSeq(r.log[j].message, 1, 5) # "77020"
    /\ (r.command.type \in Executed /\ r.pc = "replied") =>
         /\ r.result \in {"OK", "ERROR"}
         /\ \E j \in 1..Len(r.log) :
              /\ r.log[j].at = "sync"
              /\ r.log[j].status = "done"
              /\ SubSeq(r.log[j].message, 1, 5) = "77020"

\* C1 witness: an INITIALIZE whose primary operation failed has replied
\* after its sync exchange, and the port is still open for it.
C1_Witness ==
  /\ last.command.type = "INITIALIZE"
  /\ last.pc = "replied"
  /\ last.result = "ERROR"
  /\ last.log[Len(last.log)].at = "sync"

\* C2: an exchange that times out makes its command reply ERROR.
C2_TimeoutRepliesError ==
  \A r \in Invocations :
    (\E j \in 1..Len(r.log) : r.log[j].status = "timeout") => r.reply = "ERROR"

\* C3: every response an exchange returns is the one the device produced
\* for that exchange's own line, and none was enqueued after the deadline
\* of the exchange it answers.
C3_ResponsesAnswerTheirOwnExchange ==
  \A r \in Invocations :
    \A j \in 1..Len(r.log) :
      r.log[j].status = "done" =>
        /\ ~r.log[j].late
        /\ r.log[j].from = r.id
        /\ r.log[j].fromAt = r.log[j].at

\* C4: every request line that has been handled to its end got its reply,
\* OK or ERROR.
C4_EveryRequestReplied ==
  last.id # 0 => last.reply \in {"OK", "ERROR"}

\* C5: at most one command is in flight at a time.
C5_OneCommandInFlight == Len(reqs) <= 1

\* the exchanges on record of invocation id
LogOf(id) ==
  IF \E r \in Invocations : r.id = id
  THEN (CHOOSE r \in Invocations : r.id = id).log
  ELSE <<>>

\* C6: every sync writes one line fixed by the session state at the moment
\* the sync is called: "77020 <intensity> 0" with the shutter open,
\* "77020 0 0" with it closed.  That state is the one the command's own
\* primary operation left, so the sync of SHUTTER_OPEN 1 after
\* TL_INTENSITY 100 writes "77020 100 0" and the sync of SHUTTER_OPEN 0
\* writes "77020 0 0".
C6_Step ==
  \A r \in Invocations' :
    /\ \A j \in 1..Len(r.log) :
         LET e == r.log[j]
         IN  e.at \in {"sync", "initsync"} =>
               /\ e.st.shutterOpen =>
                    e.message = "77020 " \o ToString(e.st.intensity) \o " 0"
               /\ ~e.st.shutterOpen => e.message = "77020 0 0"
               /\ r.command.type = "SHUTTER_OPEN" =>
                    /\ e.st.shutterOpen = r.command.state
                    /\ (r.command.state /\ e.st.intensity = 100) =>
                         e.message = "77020 100 0"
               /\ r.command.type = "TL_INTENSITY" => e.st.intensity = r.command.level
               /\ \A k \in 1..Len(r.log) : r.log[k].at = e.at => k = j
    /\ Len(r.log) > Len(LogOf(r.id)) =>
         /\ Len(r.log) = Len(LogOf(r.id)) + 1
         /\ r.log[Len(r.log)].st = state'

C6_SyncLineFollowsState == [][C6_Step]_vars

\* C6 witness: SHUTTER_OPEN 1 replied OK after "77020 100 0" was written.
C6_Witness ==
  /\ last.data = "SHUTTER_OPEN 1\n"
  /\ last.reply = "OK"
  /\ last.log[1].at = "sync"
  /\ last.log[1].message = "77020 100 0"

InitSteps ==
  << [at |-> "init1", message |-> "77025 0",   echo |-> "77025"],
     [at |-> "init2", message |-> "77005 0",   echo |-> "77005"],
     [at |-> "init3", message |-> "77020 0 0", echo |-> "77020"],
     [at |-> "init4", message |-> "77032 0 1", echo |-> "77032"] >>

InitSites == {InitSteps[j].at : j \in 1..4}

\* C7: INITIALIZE writes the four lines in order, each after the response
\* to the previous one equalled its echo; from the first response that
\* differs no further line of the four is written (nor initialize's own
\* sync) and initialize returns ERROR.
C7_InitializeSequence ==
  \A r \in Invocations :
    r.command.type = "INITIALIZE" =>
      /\ Len(r.log) >= 1 => r.log[1].at = "init1"
      /\ \A j \in 1..Len(r.log) :
           LET e == r.log[j]
           IN  e.at \in InitSites =>
                 /\ j <= 4
                 /\ e.at = InitSteps[j].at
                 /\ e.message = InitSteps[j].message
                 /\ j >= 2 => /\ r.log[j - 1].status = "done"
                              /\ r.log[j - 1].response = InitSteps[j - 1].echo
                 /\ (e.status = "done" /\ e.response # InitSteps[j].echo) =>
                      /\ r.result = "ERROR"
                      /\ \A k \in (j + 1)..Len(r.log) : r.log[k].at = "sync"
                 /\ (e.status = "done" /\ e.response = InitSteps[j].echo
                       /\ r.pc \in {"writing", "waiting", "replied"}) =>
                      /\ Len(r.log) > j
                      /\ r.log[j + 1].at = IF j < 4 THEN InitSteps[j + 1].at ELSE "initsync"

\* C7 witness: the second line of an INITIALIZE got an unexpected response;
\* the command wrote two of the four lines and then only the sync.
C7_Witness ==
  /\ last.command.type = "INITIALIZE"
  /\ Len(last.log) = 3
  /\ last.log[1].response = "77025"
  /\ last.log[2].response = Unexpected
  /\ last.log[3].at = "sync"
  /\ last.pc = "replied"

\* C8: the reply of an INITIALIZE, TL_INTENSITY or SHUTTER_OPEN command is
\* ERROR if its primary operation or its sync returned ERROR, and OK only
\* when both returned OK.
C8_ReplyComposition ==
  \A r \in Invocations :
    (r.command.type \in Executed /\ r.pc = "replied") =>
      /\ r.result \in {"OK", "ERROR"}
      /\ r.syncResult \in {"OK", "ERROR"}
      /\ r.syncResult = "OK" <=> r.log[Len(r.log)].response = "77020"
      /\ r.command.type = "INITIALIZE" =>
           (r.result = "OK" <=> (Len(r.log) = 6 /\ r.log[5].response = "77020"))
      /\ r.command.type # "INITIALIZE" => r.result = "OK"
      /\ r.reply = "ERROR" <=> (r.result = "ERROR" \/ r.syncResult = "ERROR")
      /\ r.reply = "OK" <=> (r.result = "OK" /\ r.syncResult = "OK")

\* C8 witness: a failed primary operation with a sync that succeeded.
C8_Witness ==
  /\ last.pc = "replied"
  /\ last.result = "ERROR"
  /\ last.syncResult = "OK"
  /\ last.reply = "ERROR"

\* an invocation that ended in this step
Ends(r) == r = last' /\ last'.id # last.id

\* C9: SHUTDOWN with an open port writes the one line "77005 1"; with the
\* response "77005" it releases the port and replies OK, with any other
\* response it replies ERROR and leaves the port as it is; with no port it
\* writes nothing and replies OK.  Nothing else releases the port.
C9_Step ==
  /\ \A r \in Invocations' :
       r.command.type = "SHUTDOWN" =>
         /\ Len(r.log) <= 1
         /\ \A j \in 1..Len(r.log) :
              r.log[j].at = "shutdown" /\ r.log[j].message = "77005 1"
         /\ (r.id = received' /\ received' # received) =>
              IF port THEN r.pc = "writing" /\ Len(r.log) = 1
              ELSE r.pc = "replied" /\ r.reply = "OK" /\ Len(r.log) = 0 /\ ~port'
         /\ (Ends(r) /\ r.pc = "replied" /\ Len(r.log) = 1) =>
              IF r.log[1].response = "77005"
              THEN r.reply = "OK" /\ ~port'
              ELSE r.reply = "ERROR" /\ port' = port
         /\ (Ends(r) /\ r.pc # "replied") => port' = port
  /\ (port /\ ~port') =>
       /\ last'.id # last.id
       /\ last'.command.type = "SHUTDOWN"
       /\ last'.reply = "OK"
       /\ last'.log[1].response = "77005"

C9_ShutdownReleasesOnEcho == [][C9_Step]_vars

\* C9 witness: a SHUTDOWN got an unexpected response, replied ERROR, and
\* the port is still open.
C9_Witness ==
  /\ last.command.type = "SHUTDOWN"
  /\ last.reply = "ERROR"
  /\ last.log[1].response = Unexpected
  /\ port

\* the request lines of Lines that are not commands
ParseFailures ==
  {"INITIALIZE", "BLINK\n", "TL_INTENSITY\n", "TL_INTENSITY 300\n", "SHUTTER_OPEN 2\n"}

\* the request line d arrives in this step
Arrives(d) ==
  /\ received' = received + 1
  /\ \/ Len(reqs') > Len(reqs) /\ reqs'[Len(reqs')].data = d
     \/ Len(reqs') = Len(reqs) /\ last'.id = received' /\ last'.data = d

\* C10: a request line that does not parse is answered ERROR at once,
\* writes nothing to the device, takes nothing from the response queue and
\* leaves the session state and the port alone.
C10_Step ==
  \A d \in ParseFailures :
    Arrives(d) =>
      /\ last'.id = received'
      /\ last'.pc = "replied"
      /\ last'.reply = "ERROR"
      /\ last'.log = <<>>
      /\ UNCHANGED <<port, responseQueue, state, reqs, inbox, alive>>

C10_ParseFailureHasNoEffect == [][C10_Step]_vars

\* C10 witness: "TL_INTENSITY 300" was answered ERROR with the port open, a
\* device response waiting in the queue and an intensity of 100 in the state.
C10_Witness ==
  /\ last.data = "TL_INTENSITY 300\n"
  /\ last.reply = "ERROR"
  /\ port
  /\ Len(responseQueue) > 0
  /\ state.intensity = 100

(***************************************************************************)
(* parseCommand alone: the invocation record starts with a request line    *)
(* and one step gives it the command parseCommand returns.                 *)
(***************************************************************************)
\* the characters request lines are made of after their prefix
ArgChars == {"0", "1", "2", "3", "5", "6", "a", "-", " "}

\* the strings of at most n of these characters
RECURSIVE ArgStrings(_)
ArgStrings(n) ==
  IF n = 0 THEN {""}
  ELSE LET shorter == ArgStrings(n - 1)
       IN  shorter \cup {s \o c : s \in shorter, c \in ArgChars}

Prefixes == {"TL_INTENSITY", "SHUTTER_OPEN", "INITIALIZE", "SHUTDOWN", "BLINK"}

\* a prefix, then nothing or a space and up to MaxArgsLen characters, then
\* the line feed or nothing
ParseInputs ==
  {p \o b \o e : p \in Prefixes,
                 b \in {""} \cup {" " \o a : a \in ArgStrings(MaxArgsLen)},
                 e \in {"\n", ""}}

InitParse ==
  /\ port = FALSE
  /\ responseQueue = <<>>
  /\ state = InitialState
  /\ reqs = <<>>
  /\ \E data \in ParseInputs : last = [NoRequest EXCEPT !.data = data]
  /\ inbox = <<>>
  /\ received = 0
  /\ alive = TRUE

\* handleRequest's call of parseCommand
Parse ==
  /\ last.pc = "none"
  /\ last' = [last EXCEPT !.command = parseCommand(last.data), !.pc = "parsed"]
  /\ UNCHANGED <<port, responseQueue, state, reqs, inbox, received, alive>>

NextParse == Parse

SpecParse == InitParse /\ [][NextParse]_vars

\* the text between the prefix and the line feed of a line that has both
Body(data, prefix) == SubSeq(data, Len(prefix) + 1, Len(data) - 1)

HasPrefix(data, prefix) ==
  /\ Len(data) > Len(prefix)
  /\ SubSeq(data, 1, Len(prefix)) = prefix
  /\ SubSeq(data, Len(data), Len(data)) = "\n"

\* a is one argument: not empty and free of spaces
IsToken(a) == Len(a) > 0 /\ \A i \in 1..Len(a) : SubSeq(a, i, i) # " "

\* a is a base-10 integer string: an optional sign, then digits only
IsIntegerString(a) ==
  LET d == IF Len(a) > 0 /\ SubSeq(a, 1, 1) \in {"-", "+"} THEN Tail(a) ELSE a
  IN  Len(d) > 0 /\ \A i \in 1..Len(d) : IsDigit(SubSeq(d, i, i))

RECURSIVE Decimal(_)
Decimal(d) ==
  IF Len(d) = 0 THEN 0
  ELSE 10 * Decimal(SubSeq(d, 1, Len(d) - 1)) + DigitValue(SubSeq(d, Len(d), Len(d)))

\* the integer an integer string denotes
Denotes(a) ==
  IF SubSeq(a, 1, 1) = "-" THEN 0 - Decimal(Tail(a))
  ELSE IF SubSeq(a, 1, 1) = "+" THEN Decimal(Tail(a))
  ELSE Decimal(a)

\* C11: for "TL_INTENSITY <arg>" with one argument, parseCommand returns
\* TL_INTENSITY with the integer <arg> denotes when <arg> is an integer
\* string denoting a value in [0,255], and ERROR for every other argument.
C11_IntensityArgument ==
  (last.pc = "parsed" /\ HasPrefix(last.data, "TL_INTENSITY ")
     /\ IsToken(Body(last.data, "TL_INTENSITY "))) =>
    LET a == Body(last.data, "TL_INTENSITY ")
    IN  IF IsIntegerString(a) /\ Denotes(a) \in 0..255
        THEN last.command = [type |-> "TL_INTENSITY", level |-> Denotes(a)]
        ELSE last.command = PARSE_ERROR

\* the words of a body: its maximal runs of characters other than spaces
WordCount(b) ==
  Cardinality({i \in 1..Len(b) :
                 /\ SubSeq(b, i, i) # " "
                 /\ (i = 1 \/ SubSeq(b, i - 1, i - 1) = " ")})

\* C12: "SHUTTER_OPEN 0" parses to state=false and "SHUTTER_OPEN 1" to
\* state=true; any other argument gives ERROR, and so does, for
\* TL_INTENSITY and SHUTTER_OPEN alike, any number of arguments but one
\* (none, or two and more space-separated tokens).
C12_ShutterArgumentAndCounts ==
  last.pc = "parsed" =>
    /\ last.data = "SHUTTER_OPEN 0\n" =>
         last.command = [type |-> "SHUTTER_OPEN", state |-> FALSE]
    /\ last.data = "SHUTTER_OPEN 1\n" =>
         last.command = [type |-> "SHUTTER_OPEN", state |-> TRUE]
    /\ (HasPrefix(last.data, "SHUTTER_OPEN ")
          /\ IsToken(Body(last.data, "SHUTTER_OPEN "))
          /\ Body(last.data, "SHUTTER_OPEN ") \notin {"0", "1"}) =>
         last.command = PARSE_ERROR
    /\ \A p \in {"TL_INTENSITY", "SHUTTER_OPEN"} :
         /\ last.data = p \o "\n" => last.command = PARSE_ERROR
         /\ (HasPrefix(last.data, p \o " ") /\ WordCount(Body(last.data, p \o " ")) # 1) =>
              last.command = PARSE_ERROR

\* C12 witness: a SHUTTER_OPEN line of two arguments was parsed to ERROR.
C12_Witness ==
  /\ last.pc = "parsed"
  /\ last.data = "SHUTTER_OPEN 1 0\n"
  /\ last.command = PARSE_ERROR

\* C13: the intensity of the session state is an integer in [0,255] in
\* every reachable state, and the state starts as {shutterOpen: false,
\* intensity: 0}.
C13_IntensityInRange ==
  /\ state.intensity \in 0..255
  /\ state.shutterOpen \in BOOLEAN
  /\ received = 0 => state = [shutterOpen |-> FALSE, intensity |-> 0]

\* C13 witness: "TL_INTENSITY 300" arrived after the intensity was set to
\* 100, with the shutter open.
C13_Witness ==
  /\ state = [shutterOpen |-> TRUE, intensity |-> 100]
  /\ last.data = "TL_INTENSITY 300\n"
  /\ received = 3

\* C14: each field of the session state changes only in the step in which
\* its own command arrives: SHUTTER_OPEN sets shutterOpen and leaves the
\* intensity, TL_INTENSITY sets the intensity and leaves shutterOpen, and
\* no step of an INITIALIZE or SHUTDOWN, whatever its outcome, changes
\* either.
C14_Step ==
  LET arrived == {r \in Invocations' : r.id = received' /\ received' # received}
  IN  /\ state'.intensity # state.intensity =>
            \E r \in arrived : /\ r.command.type = "TL_INTENSITY"
                               /\ state'.intensity = r.command.level
      /\ state'.shutterOpen # state.shutterOpen =>
            \E r \in arrived : /\ r.command.type = "SHUTTER_OPEN"
                               /\ state'.shutterOpen = r.command.state
      /\ \A r \in arrived :
           /\ r.command.type = "SHUTTER_OPEN" =>
                /\ state'.intensity = state.intensity
                /\ state'.shutterOpen = r.command.state
           /\ r.command.type = "TL_INTENSITY" =>
                /\ state'.shutterOpen = state.shutterOpen
                /\ state'.intensity = r.command.level
           /\ r.command.type \in {"INITIALIZE", "SHUTDOWN"} => state' = state

C14_StateChangesOnlyByOwnCommand == [][C14_Step]_vars

\* C14 witness: the shutter was closed with the intensity at 100, the
\* command replied OK and the intensity is still 100.
C14_Witness ==
  /\ last.data = "SHUTTER_OPEN 0\n"
  /\ last.reply = "OK"
  /\ last.log[1].message = "77020 0 0"
  /\ state = [shutterOpen |-> FALSE, intensity |-> 100]

\* the level the device should be showing for a session state
DeviceLevel(s) == IF s.shutterOpen THEN s.intensity ELSE 0

\* C15: with no command in flight and the most recent command, other than
\* SHUTDOWN, having replied OK, the last 77020 line written (that command's
\* sync) carries the level of the session state, the intensity with the
\* shutter open and 0 with it closed, and the device acknowledged that
\* line with the echo 77020.
C15_DeviceFollowsState ==
  (Len(reqs) = 0 /\ last.command.type \in Executed /\ last.reply = "OK") =>
    LET e == last.log[Len(last.log)]
    IN  /\ e.at = "sync"
        /\ e.message = "77020 " \o ToString(DeviceLevel(state)) \o " 0"
        /\ e.response = "77020"
        /\ e.from = last.id
        /\ e.fromAt = "sync"

\* the sync exchange of an invocation failed: its response was not the
\* echo, or none came before the deadline
SyncFailed(r) ==
  /\ Len(r.log) > 0
  /\ r.log[Len(r.log)].at = "sync"
  /\ \/ r.log[Len(r.log)].status = "timeout"
     \/ r.log[Len(r.log)].status = "done" /\ r.log[Len(r.log)].response # "77020"

\* C16: a TL_INTENSITY or SHUTTER_OPEN command whose sync exchange fails,
\* by echo mismatch or by timeout, is reported as ERROR, and the session
\* state keeps the value the command set.
C16_FailedSyncKeepsStateRepliesError ==
  (Len(reqs) = 0 /\ last.command.type \in {"TL_INTENSITY", "SHUTTER_OPEN"}
     /\ SyncFailed(last)) =>
    /\ last.reply = "ERROR"
    /\ last.command.type = "TL_INTENSITY" => state.intensity = last.command.level
    /\ last.command.type = "SHUTTER_OPEN" => state.shutterOpen = last.command.state

\* the lines of code 77032 among the exchanges of an invocation
ShutterLines(r) ==
  {j \in 1..Len(r.log) : SubSeq(r.log[j].message, 1, 5) = "77032"}

\* C17: every line written to the device that starts with code 77032 is
\* exactly "77032 0 1" and is written by an INITIALIZE command, at the
\* fourth exchange of initialize(); a SHUTTER_OPEN command writes no 77032
\* line, so the device-level shutter is never toggled off.
C17_DeviceShutterOnlyOpenedByInitialize ==
  /\ \A r \in Invocations :
       /\ \A j \in ShutterLines(r) :
            /\ r.log[j].message = "77032 0 1"
            /\ r.log[j].at = "init4"
            /\ r.command.type = "INITIALIZE"
       /\ r.command.type = "SHUTTER_OPEN" => ShutterLines(r) = {}
  /\ \A j \in 1..Len(inbox) :
       SubSeq(inbox[j].message, 1, 5) = "77032" =>
         inbox[j].message = "77032 0 1" /\ inbox[j].fromAt = "init4"

\* C17 witness: a SHUTTER_OPEN 0 command has replied OK with the session
\* shutter closed, having written its one line, the sync line "77020 0 0".
C17_Witness ==
  /\ last.command = [type |-> "SHUTTER_OPEN", state |-> FALSE]
  /\ last.reply = "OK"
  /\ ~state.shutterOpen
  /\ Len(last.log) = 1
  /\ last.log[1].message = "77020 0 0"

\* the invocation `id` after the step
After(id) ==
  IF last'.id = id THEN last'
  ELSE CHOOSE r \in {reqs'[k] : k \in 1..Len(reqs')} : r.id = id

\* In one step: the queue changes only by the listener appending a line or
\* by an exchange taking its head; an exchange that completes returns the
\* head of the queue; and a write that succeeds with the queue non-empty
\* completes its exchange in that same step with the head.
C18_Step ==
  /\ responseQueue' # responseQueue =>
       \/ /\ Len(responseQueue') = Len(responseQueue) + 1
          /\ SubSeq(responseQueue', 1, Len(responseQueue)) = responseQueue
       \/ /\ Len(responseQueue) > 0
          /\ responseQueue' = Tail(responseQueue)
          /\ \E k \in 1..Len(reqs) :
               /\ Current(reqs[k]).status # "done"
               /\ After(reqs[k].id).log[Len(reqs[k].log)].status = "done"
  /\ \A k \in 1..Len(reqs) :
       LET r == reqs[k]
           n == Len(r.log)
           e == After(r.id).log[n]
       IN  /\ (r.log[n].status # "done" /\ e.status = "done") =>
                /\ Len(responseQueue) > 0
                /\ responseQueue' = Tail(responseQueue)
                /\ e.response = Head(responseQueue).text
                /\ e.from = Head(responseQueue).from
                /\ e.fromAt = Head(responseQueue).fromAt
           /\ (r.pc = "writing" /\ Len(inbox') > Len(inbox)
                 /\ Len(responseQueue) > 0) => e.status = "done"

\* C18: device responses are consumed in arrival order, and a wait that
\* starts with a non-empty queue returns the head line at once, even a line
\* that was enqueued before the exchange's own line was written.
C18_ResponsesConsumedInArrivalOrder == [][C18_Step]_vars

\* C18 witness: a one-exchange command has replied on a response that was
\* the answer to an earlier command's line, taken when its write completed
\* (no poll timer was armed), while a later line was still in the queue.
C18_Witness ==
  /\ last.command.type \in {"TL_INTENSITY", "SHUTTER_OPEN"}
  /\ last.pc = "replied"
  /\ Len(last.log) = 1
  /\ last.log[1].from # last.id
  /\ last.budget = 0
  /\ Len(responseQueue) > 0

\* In one step, a write whose callback reports an error ends the command
\* there: nothing is taken from the queue, no line reaches the device, and
\* the failed exchange stays the last one of the command.  In every state
\* a failed exchange is the last of its command, which has been aborted
\* without a reply; an aborted command has no exchange left in progress,
\* the line whose write failed has not reached the device, and a command
\* aborted before its first exchange has written nothing.
C19_Step ==
  /\ \A k \in 1..Len(reqs) :
       LET r == reqs[k]
           n == Len(r.log)
           a == After(r.id)
       IN  (r.log[n].status = "writing" /\ a.log[n].status = "failed") =>
             /\ a = last'
             /\ a.pc = "aborted"
             /\ Len(a.log) = n
             /\ responseQueue' = responseQueue
             /\ inbox' = inbox
  /\ \A r \in Invocations' :
       /\ \A j \in 1..Len(r.log) :
            r.log[j].status = "failed" =>
              j = Len(r.log) /\ r.pc = "aborted" /\ r.reply = NONE
       /\ r.pc = "aborted" =>
            /\ r.reply = NONE
            /\ \A j \in 1..Len(r.log) : r.log[j].status \in {"done", "failed"}
            /\ \A j \in 1..Len(inbox') :
                 inbox'[j].from = r.id =>
                   /\ Len(r.log) > 0
                   /\ r.log[Len(r.log)].status = "failed" =>
                        inbox'[j].fromAt # r.log[Len(r.log)].at

\* C19: a device write that cannot be performed (no port, or the write
\* callback reports an error) aborts the command at that point: no
\* response is awaited or dequeued for the line, and the command writes no
\* further line, the post-command sync included.
C19_WriteFailureAbortsCommand == [][C19_Step]_vars

\* C19 witness: an INITIALIZE was aborted by the failed write of its third
\* line, after two completed exchanges.
C19_Witness ==
  /\ last.command.type = "INITIALIZE"
  /\ last.pc = "aborted"
  /\ Len(last.log) = 3
  /\ last.log[3].status = "failed"
  /\ last.log[2].status = "done"

\* the device echoed the line of every completed exchange of r, each
\* response being the answer to that very line
EchoedThroughout(r) ==
  \A j \in 1..Len(r.log) :
    r.log[j].status = "done" =>
      /\ r.log[j].response = Echo(r.log[j].message)
      /\ r.log[j].from = r.id
      /\ r.log[j].fromAt = r.log[j].at

\* the lines INITIALIZE writes while the session state is s
InitializeLines(s) ==
  <<"77025 0", "77005 0", "77020 0 0", "77032 0 1",
    syncMicroscopeToState(s), syncMicroscopeToState(s)>>

\* C20: an INITIALIZE command executed alone against a device that echoes
\* every expected code writes exactly six lines, "77025 0", "77005 0",
\* "77020 0 0", "77032 0 1" and the sync line twice (from initialize and
\* from executeCommand), the two sync lines identical, and replies OK.
C20_InitializeAloneWritesSixLines ==
  \A r \in Invocations :
    (r.command.type = "INITIALIZE" /\ EchoedThroughout(r)) =>
      /\ Len(r.log) <= 6
      /\ \A j \in 1..Len(r.log) :
           /\ r.log[j].message = InitializeLines(r.log[j].st)[j]
           /\ r.log[j].at = <<"init1", "init2", "init3", "init4", "initsync", "sync">>[j]
      /\ r.pc = "replied" =>
           /\ Len(r.log) = 6
           /\ r.log[5].message = r.log[6].message
           /\ r.reply = "OK"
      /\ (Len(r.log) = 6 /\ r.log[6].status = "done") =>
           r.pc = "replied" /\ r.reply = "OK"

\* C20 witness: an INITIALIZE has replied OK after six echoed exchanges,
\* with the session shutter open so that its sync line carries the level.
C20_Witness ==
  /\ last.command.type = "INITIALIZE"
  /\ last.pc = "replied"
  /\ last.reply = "OK"
  /\ EchoedThroughout(last)
  /\ Len(last.log) = 6
  /\ last.log[6].message = "77020 100 0"

=============================================================================
